---- MODULE Spec2Model ----
(***************************************************************************)
(* tbv: the verification pipeline of src/verifier.ts.                      *)
(*                                                                         *)
(* Verifier.verify is an async function.  Between two awaits its code runs *)
(* to completion, so every action below is one such segment: it starts     *)
(* where a collaborator call (HTTP GET, temp-dir allocation, subprocess)   *)
(* settles, draws the outcome of that call, and runs the code up to the    *)
(* next await or to the point where the promise of verify settles.         *)
(*                                                                         *)
(* JavaScript values are tagged records, so that the dynamic property      *)
(* accesses, truthiness tests and coercions of the registry phase are      *)
(* computed as the language computes them.                                 *)
(***************************************************************************)
EXTENDS Integers, Sequences, FiniteSets, TLC

VARIABLES
    progress,     \* Engine.progress of each verifier: step id -> Step
    hasFailed,    \* Engine.hasFailed of each verifier
    hasPrinted,   \* Engine.hasPrinted of each verifier
    pc,           \* the await each verify call is suspended at, or idle/done
    frame,        \* the local variables of the verify call in progress
    result,       \* how the promise returned by verify settled
    cwd,          \* process.cwd(): one per process, shared by all verifiers
    rendered,     \* history: the updates the render hook has been shown, per call
    calls,        \* history: the collaborator calls started by the call, in order
    atCall,       \* history: what the call saw when it was made
    overlapped    \* history: two calls of verify have been in progress at once

vars == <<progress, hasFailed, hasPrinted, pc, frame, result, cwd, rendered, calls,
          atCall, overlapped>>

-----------------------------------------------------------------------------
(* JavaScript values *)

Undefined == [t |-> "undefined"]
Null == [t |-> "null"]
Str(s) == [t |-> "string", s |-> s]
Num(n) == [t |-> "number", n |-> n]
Obj(f) == [t |-> "object", f |-> f]

\* ToBoolean, as applied by !x, x && y, x || y and if (x)
Truthy(x) ==
    CASE x.t = "undefined" -> FALSE
      [] x.t = "null" -> FALSE
      [] x.t = "string" -> x.s # ""
      [] x.t = "number" -> x.n # 0
      [] OTHER -> TRUE

\* x[key] raises a TypeError exactly when x is undefined or null
Nullish(x) == x.t \in {"undefined", "null"}

\* ToString, as applied by template literals and by computed property keys
JsToString(x) ==
    CASE x.t = "undefined" -> "undefined"
      [] x.t = "null" -> "null"
      [] x.t = "string" -> x.s
      [] x.t = "number" -> (IF x.n = 0 THEN "0" ELSE "1")
      [] OTHER -> "[object Object]"

\* x[key] for a non-nullish x: an own property of an object, undefined otherwise
Get(x, key) ==
    IF x.t = "object" /\ key \in DOMAIN x.f THEN x.f[key] ELSE Undefined

Or(x, y) == IF Truthy(x) THEN x ELSE y
And(x, y) == IF Truthy(x) THEN y ELSE x

\* a === b: primitives by value, an object never equals a primitive
StrictEquals(a, b) == a.t = b.t /\ a.t # "object" /\ a = b

\* {} and property lookup on the object a phase returns
EmptyObject == Obj([k \in {} |-> Undefined])

\* String.prototype.startsWith and String.prototype.substring(from)
StartsWith(s, prefix) ==
    Len(s) >= Len(prefix) /\ SubSeq(s, 1, Len(prefix)) = prefix
Substring(s, from) ==
    IF from >= Len(s) THEN "" ELSE SubSeq(s, from + 1, Len(s))

-----------------------------------------------------------------------------
(* The digest pattern of pack: /shasum:\s+([0-9a-f]{40})/ *)

ShasumLen == 40
HexDigits == {"0", "1", "2", "3", "4", "5", "6", "7", "8", "9",
              "a", "b", "c", "d", "e", "f"}
WhiteSpace == {" ", "\t", "\n", "\r", "\f"}

CharAt(s, i) == SubSeq(s, i, i)

\* the pattern matches at position i with k characters of white space
MatchesAt(s, i, k) ==
    /\ i + 6 + k + ShasumLen <= Len(s)
    /\ SubSeq(s, i, i + 6) = "shasum:"
    /\ \A j \in (i + 7)..(i + 6 + k) : CharAt(s, j) \in WhiteSpace
    /\ \A j \in (i + 7 + k)..(i + 6 + k + ShasumLen) : CharAt(s, j) \in HexDigits

\* the positions the literal of the pattern is found at
LiteralAt(s) == {i \in 1..Len(s) : i + 6 <= Len(s) /\ SubSeq(s, i, i + 6) = "shasum:"}

ShasumMatches(s) ==
    UNION { {<<i, k>> : k \in {k \in 1..Len(s) : MatchesAt(s, i, k)}} :
            i \in LiteralAt(s) }

\* RegExp.exec returns null when nothing matches: indexing it raises
ExecIsNull(s) == ShasumMatches(s) = {}

\* capture group 1 of the leftmost match
ExecGroup1(s) ==
    LET m == CHOOSE m \in ShasumMatches(s) :
                 \A o \in ShasumMatches(s) : m[1] <= o[1]
    IN  SubSeq(s, m[1] + 7 + m[2], m[1] + 6 + m[2] + ShasumLen)

-----------------------------------------------------------------------------
(* Engine: the base class of Verifier (./engine) *)

StepIds == <<"registry", "repo", "gitHead", "checkout", "install", "pack", "compare">>
Steps == {StepIds[i] : i \in 1..Len(StepIds)}
NoMessage == ""

createProgress ==
    [id \in Steps |->
        [status |-> "pending",
         title |-> CASE id = "registry" -> "Fetch package data from registry"
                     [] id = "repo" -> "Version contains repository URL"
                     [] id = "gitHead" -> "Version contains gitHead"
                     [] id = "checkout" -> "Shallow checkout"
                     [] id = "install" -> "Install npm packages"
                     [] id = "pack" -> "Create package"
                     [] id = "compare" -> "Compare shasums",
         message |-> NoMessage]]

\* Engine.updateProgress: set the step, raise the fail flag on 'fail', render
updateProgress(c, id, status, message) ==
    [c EXCEPT !.progress[id].status = status,
              !.progress[id].message = message,
              !.hasFailed = IF status = "fail" THEN TRUE ELSE @,
              !.hasPrinted = TRUE,
              !.rendered = Append(@, [id |-> id, from |-> c.progress[id].status,
                                      status |-> status])]

\* Engine.get / Engine.createTemp / Engine.exec start a call and suspend at label
Start(c, op, arg, label) ==
    [c EXCEPT !.calls = Append(@, [op |-> op, arg |-> arg, cwd |-> c.cwd,
                                   outcome |-> "pending", value |-> Undefined]),
              !.pc = label]

\* the awaited promise settles
Settle(c, ok) ==
    [c EXCEPT !.calls[Len(c.calls)].outcome = IF ok THEN "resolved" ELSE "rejected"]

\* the awaited promise resolves with value
SettleWith(c, value) ==
    [c EXCEPT !.calls[Len(c.calls)].outcome = "resolved",
              !.calls[Len(c.calls)].value = value]

\* process.chdir
chdir(c, dir) == [c EXCEPT !.cwd = dir]

\* the promise of verify settles
Resolve(c, value) ==
    [c EXCEPT !.pc = "done", !.result = IF value THEN "true" ELSE "false"]
Reject(c) == [c EXCEPT !.pc = "done", !.result = "rejected"]

-----------------------------------------------------------------------------
(* Verifier.compare and the end of Verifier.verify *)

compare(c, registryShasum, remoteShasum) ==
    LET c1 == updateProgress(c, "compare", "working", NoMessage)
    IN  IF StrictEquals(registryShasum, remoteShasum)
        THEN updateProgress(c1, "compare", "pass", NoMessage)
        ELSE updateProgress(c1, "compare", "fail", "Shasums do not match")

\* C7 mutant: the result of compare is not looked at
verifyAfterPackNoCheck(c) ==
    IF c.hasFailed THEN Resolve(c, FALSE)
    ELSE Resolve(compare(c, c.frame.shasum, c.frame.remoteShasum), TRUE)

\* verify, from the point where pack has returned
verifyAfterPack(c) ==
    IF c.hasFailed THEN Resolve(c, FALSE)
    ELSE LET c1 == compare(c, c.frame.shasum, c.frame.remoteShasum)
         IN  IF c1.hasFailed THEN Resolve(c1, FALSE) ELSE Resolve(c1, TRUE)

-----------------------------------------------------------------------------
(* Verifier.pack *)

\* C2 mutant: the parse failure returns without restoring the directory
packParseNoRestore(c) ==
    IF ExecIsNull(JsToString(c.frame.stdout))
    THEN verifyAfterPack(updateProgress(c, "pack", "fail",
                                        "Error parsing shasum from pack output"))
    ELSE LET c1 == [c EXCEPT !.frame.remoteShasum =
                                 Str(ExecGroup1(JsToString(c.frame.stdout)))]
             c2 == updateProgress(c1, "pack", "pass", NoMessage)
         IN  verifyAfterPack(chdir(c2, c.frame.cwd))

\* parse shasum from stdout, to the return of pack
packParse(c) ==
    IF ExecIsNull(JsToString(c.frame.stdout))
    THEN LET c1 == updateProgress(c, "pack", "fail",
                                  "Error parsing shasum from pack output")
         IN  verifyAfterPack(chdir(c1, c.frame.cwd))
    ELSE LET c1 == [c EXCEPT !.frame.remoteShasum =
                                 Str(ExecGroup1(JsToString(c.frame.stdout)))]
             c2 == updateProgress(c1, "pack", "pass", NoMessage)
         IN  verifyAfterPack(chdir(c2, c.frame.cwd))

\* C6 mutant: the failed retry is reported on the install step
packAgainSettledWrongStep(c, ok, stdout) ==
    IF ok
    THEN packParse([c EXCEPT !.frame.stdout = Str(stdout)])
    ELSE LET c1 == updateProgress(c, "install", "fail",
                       "Error creating package from remote files" \o "Error")
         IN  verifyAfterPack(chdir(c1, c.frame.cwd))

\* the retried npm pack --dry-run settles
packAgainSettled(c, ok, stdout) ==
    IF ok
    THEN packParse([c EXCEPT !.frame.stdout = Str(stdout)])
    ELSE LET c1 == updateProgress(c, "pack", "fail",
                       "Error creating package from remote files" \o "Error")
         IN  verifyAfterPack(chdir(c1, c.frame.cwd))

\* C11 mutant: a failed install is reported and the pack is retried all the same
npmCiSettledRetriesAnyway(c, ok) ==
    LET c1 == IF ok THEN updateProgress(c, "install", "pass", NoMessage)
              ELSE updateProgress(c, "install", "fail",
                                  "Error installing dependencies")
        c2 == updateProgress(c1, "pack", "working", NoMessage)
    IN  Start(c2, "exec", "npm pack --dry-run", "packAgain")

\* npm ci settles
npmCiSettled(c, ok) ==
    IF ok
    THEN LET c1 == updateProgress(c, "install", "pass", NoMessage)
             c2 == updateProgress(c1, "pack", "working", NoMessage)
         IN  Start(c2, "exec", "npm pack --dry-run", "packAgain")
    ELSE LET c1 == updateProgress(c, "install", "fail",
                                  "Error installing dependencies")
         IN  verifyAfterPack(chdir(c1, c.frame.cwd))

\* C3 mutant: pack is left Working while the dependencies are installed
packInstallKeepsWorking(c) ==
    Start(updateProgress(c, "install", "working", NoMessage), "exec", "npm ci", "npmCi")

\* C19 mutant: install is set Working before pack is put back to Pending
packInstallWorkingFirst(c) ==
    LET c1 == updateProgress(c, "install", "working", NoMessage)
        c2 == updateProgress(c1, "pack", "pending", "Waiting for dependencies")
    IN  Start(c2, "exec", "npm ci", "npmCi")

\* the dependency fallback, up to the await of npm ci
packInstall(c) ==
    LET c1 == updateProgress(c, "pack", "pending", "Waiting for dependencies")
        c2 == updateProgress(c1, "install", "working", NoMessage)
    IN  Start(c2, "exec", "npm ci", "npmCi")

\* the first npm pack --dry-run settles
packSettled(c, ok, stdout) ==
    IF ok
    THEN LET c1 == [c EXCEPT !.frame.stdout = Str(stdout)]
         IN  packParse(updateProgress(c1, "install", "skipped", NoMessage))
    ELSE packInstall(c)

\* pack, up to the await of the first npm pack --dry-run
packBegin(c) ==
    LET c1 == updateProgress(c, "pack", "working", NoMessage)
        c2 == [c1 EXCEPT !.frame.cwd = c1.cwd, !.frame.stdout = Null]
        c3 == chdir(c2, c2.frame.tempDir)
    IN  Start(c3, "exec", "npm pack --dry-run", "pack")

\* C4 mutant: verify goes on to pack whatever checkout reported
verifyAfterCheckoutNoHalt(c) == packBegin(c)

\* verify, from the point where checkout has returned
verifyAfterCheckout(c) ==
    IF c.hasFailed THEN Resolve(c, FALSE) ELSE packBegin(c)

-----------------------------------------------------------------------------
(* Verifier.checkout *)

\* the await of git checkout FETCH_HEAD
checkoutFetchHead(c) == Start(c, "exec", "git checkout FETCH_HEAD", "checkoutHead")

\* C12 mutant: a failed git checkout returns without restoring the directory
checkoutHeadSettledNoRestore(c, ok) ==
    IF ok
    THEN LET c1 == chdir(c, c.frame.cwd)
         IN  verifyAfterCheckout(updateProgress(c1, "checkout", "pass", NoMessage))
    ELSE verifyAfterCheckout(updateProgress(c, "checkout", "fail",
                                            "Unable to checkout FETCH_HEAD"))

\* git checkout FETCH_HEAD settles
checkoutHeadSettled(c, ok) ==
    IF ok
    THEN LET c1 == chdir(c, c.frame.cwd)
         IN  verifyAfterCheckout(updateProgress(c1, "checkout", "pass", NoMessage))
    ELSE LET c1 == updateProgress(c, "checkout", "fail",
                                  "Unable to checkout FETCH_HEAD")
         IN  verifyAfterCheckout(chdir(c1, c.frame.cwd))

\* git fetch origin {gitHead} settles
fetchHeadSettled(c, ok) ==
    LET gitHead == c.frame.gitHead
    IN  IF ok
        THEN checkoutFetchHead([c EXCEPT !.frame.refspec = gitHead])
        ELSE IF gitHead.t # "string"
        THEN Reject(c)    \* gitHead.substring is not a function
        ELSE LET c1 == updateProgress(c, "checkout", "fail",
                           "Unable fetch commit from remote ("
                           \o SubSeq(gitHead.s, 1, IF Len(gitHead.s) < 7
                                                   THEN Len(gitHead.s) ELSE 7)
                           \o ")")
             IN  verifyAfterCheckout(chdir(c1, c.frame.cwd))

\* C8 mutant: the fallback records the v-prefixed tag as its refspec
fetchTagSettledWrongRef(c, ok) ==
    LET version == JsToString(c.frame.resolvedVersion)
    IN  IF ok
        THEN checkoutFetchHead(
                 [c EXCEPT !.frame.refspec = Str("tags/v" \o version)])
        ELSE LET c1 == updateProgress(c, "checkout", "fail",
                           "Unable fetch tag from remote (tags/" \o version
                           \o " or tags/v" \o version \o ")")
             IN  verifyAfterCheckout(chdir(c1, c.frame.cwd))

\* git fetch origin tags/{resolvedVersion} settles
fetchTagSettled(c, ok) ==
    LET version == JsToString(c.frame.resolvedVersion)
    IN  IF ok
        THEN checkoutFetchHead(
                 [c EXCEPT !.frame.refspec = Str("tags/" \o version)])
        ELSE LET c1 == updateProgress(c, "checkout", "fail",
                           "Unable fetch tag from remote (tags/" \o version
                           \o " or tags/v" \o version \o ")")
             IN  verifyAfterCheckout(chdir(c1, c.frame.cwd))

\* C16 mutant: the failed fetch of tags/v{version} is issued again
fetchVTagSettledRetries(c, ok) ==
    LET version == JsToString(c.frame.resolvedVersion)
    IN  IF ok
        THEN checkoutFetchHead(
                 [c EXCEPT !.frame.refspec = Str("tags/v" \o version)])
        ELSE Start(c, "exec", "git fetch --depth 1 origin tags/v" \o version,
                   "fetchTag")

\* git fetch origin tags/v{resolvedVersion} settles
fetchVTagSettled(c, ok) ==
    LET version == JsToString(c.frame.resolvedVersion)
    IN  IF ok
        THEN checkoutFetchHead(
                 [c EXCEPT !.frame.refspec = Str("tags/v" \o version)])
        ELSE Start(c, "exec", "git fetch --depth 1 origin tags/" \o version,
                   "fetchTag")

\* a git fetch settles: c.pc tells which of the three it was
fetchSettled(c, ok) ==
    CASE c.pc = "fetchHead" -> fetchHeadSettled(c, ok)
      [] c.pc = "fetchVTag" -> fetchVTagSettled(c, ok)
      [] c.pc = "fetchTag" -> fetchTagSettled(c, ok)

\* fetch from remote: by gitHead when there is one, by version tag otherwise
fetchBegin(c) ==
    IF Truthy(c.frame.gitHead)
    THEN Start(c, "exec",
               "git fetch --depth 1 origin " \o JsToString(c.frame.gitHead),
               "fetchHead")
    ELSE Start(c, "exec",
               "git fetch --depth 1 origin tags/v"
               \o JsToString(c.frame.resolvedVersion),
               "fetchVTag")

\* git remote add settles
remoteAddSettled(c, ok) ==
    IF ok
    THEN fetchBegin(c)
    ELSE LET c1 == updateProgress(c, "checkout", "fail",
                                  "Error initializing git repo in temp directory")
         IN  verifyAfterCheckout(chdir(c1, c.frame.cwd))

\* git init settles
gitInitSettled(c, ok) ==
    IF ok
    THEN Start(c, "exec",
               "git remote add origin \"" \o JsToString(c.frame.repoUrl) \o "\"",
               "remoteAdd")
    ELSE LET c1 == updateProgress(c, "checkout", "fail",
                                  "Error initializing git repo in temp directory")
         IN  verifyAfterCheckout(chdir(c1, c.frame.cwd))

\* C20 mutant: the temp directory is not entered
createTempSettledStaysPut(c, ok, dir) ==
    IF ok
    THEN LET c1 == [c EXCEPT !.frame.tempDir = dir]
         IN  Start(c1, "exec", "git init", "gitInit")
    ELSE verifyAfterCheckout(
             updateProgress(c, "checkout", "fail", "Error creating temp directory"))

\* createTemp settles
createTempSettled(c, ok, dir) ==
    IF ok
    THEN LET c1 == [c EXCEPT !.frame.tempDir = dir]
         IN  Start(chdir(c1, dir), "exec", "git init", "gitInit")
    ELSE verifyAfterCheckout(
             updateProgress(c, "checkout", "fail", "Error creating temp directory"))

\* checkout, up to the await of createTemp
checkoutBegin(c) ==
    LET c1 == updateProgress(c, "checkout", "working", NoMessage)
        c2 == [c1 EXCEPT !.frame.cwd = c1.cwd, !.frame.tempDir = "",
                         !.frame.refspec = Undefined]
    IN  Start(c2, "createTemp", "", "createTemp")

\* C17 mutant: checkout is entered whatever registry left behind
verifyAfterRegistryNoHalt(c, ret) ==
    LET c1 == [c EXCEPT !.frame.resolvedVersion = Get(ret, "resolvedVersion"),
                        !.frame.repoUrl = Get(ret, "repoUrl"),
                        !.frame.gitHead = Get(ret, "gitHead"),
                        !.frame.shasum = Get(ret, "shasum")]
    IN  checkoutBegin(c1)

\* verify, from the point where registry has returned the object ret
verifyAfterRegistry(c, ret) ==
    LET c1 == [c EXCEPT !.frame.resolvedVersion = Get(ret, "resolvedVersion"),
                        !.frame.repoUrl = Get(ret, "repoUrl"),
                        !.frame.gitHead = Get(ret, "gitHead"),
                        !.frame.shasum = Get(ret, "shasum")]
    IN  IF c1.hasFailed THEN Resolve(c1, FALSE) ELSE checkoutBegin(c1)

-----------------------------------------------------------------------------
(* Verifier.registry *)

\* C15 mutant: the digest of dist is preferred to the legacy field
registryShasumDistFirst(versionInfo) ==
    LET dist == Get(versionInfo, "dist")
    IN  Or(And(dist, Get(dist, "shasum")), Get(versionInfo, "_shasum"))

\* versionInfo['_shasum'] || (versionInfo.dist && versionInfo.dist.shasum)
registryShasum(versionInfo) ==
    LET dist == Get(versionInfo, "dist")
    IN  Or(Get(versionInfo, "_shasum"), And(dist, Get(dist, "shasum")))

\* C9 mutant: a missing gitHead ends the phase like the failures before it
registryGitHeadReturnsOnWarn(c, versionInfo, resolvedVersion, repoUrl) ==
    LET dist == Get(versionInfo, "dist")
        shasum == Or(Get(versionInfo, "_shasum"), And(dist, Get(dist, "shasum")))
    IN  IF ~Truthy(Get(versionInfo, "gitHead"))
        THEN verifyAfterRegistry(
                 updateProgress(c, "gitHead", "warn",
                     "GitHead is not specified for version "
                     \o JsToString(resolvedVersion)),
                 EmptyObject)
        ELSE verifyAfterRegistry(
                 updateProgress(c, "gitHead", "pass", NoMessage),
                 Obj([resolvedVersion |-> resolvedVersion,
                      repoUrl |-> Str(repoUrl), shasum |-> shasum]))

\* C18 mutant: after the warning the step is not set to Pass
registryGitHeadKeepsWarn(c, versionInfo, resolvedVersion, repoUrl) ==
    LET c1 == IF ~Truthy(Get(versionInfo, "gitHead"))
              THEN updateProgress(c, "gitHead", "warn",
                       "GitHead is not specified for version "
                       \o JsToString(resolvedVersion))
              ELSE updateProgress(c, "gitHead", "pass", NoMessage)
        shasum == registryShasum(versionInfo)
    IN  verifyAfterRegistry(c1,
            Obj([resolvedVersion |-> resolvedVersion, repoUrl |-> Str(repoUrl),
                 shasum |-> shasum]))

\* check for gitHead, compute the shasum, return
registryGitHead(c, versionInfo, resolvedVersion, repoUrl) ==
    LET c1 == IF ~Truthy(Get(versionInfo, "gitHead"))
              THEN updateProgress(c, "gitHead", "warn",
                       "GitHead is not specified for version "
                       \o JsToString(resolvedVersion))
              ELSE c
        c2 == updateProgress(c1, "gitHead", "pass", NoMessage)
        shasum == registryShasum(versionInfo)
    IN  verifyAfterRegistry(c2,
            Obj([resolvedVersion |-> resolvedVersion, repoUrl |-> Str(repoUrl),
                 shasum |-> shasum]))

\* C13 mutant: the prefix is cut one character short
normalizeUrlCutsThree(url) ==
    IF StartsWith(url, "git+") THEN Substring(url, 3) ELSE url

\* normalisation of the repository URL
normalizeUrl(url) == IF StartsWith(url, "git+") THEN Substring(url, 4) ELSE url

\* C14 mutant: the url is looked at before the type
registryRepoUrlFirst(c, versionInfo, resolvedVersion) ==
    LET repository == Get(versionInfo, "repository")
        version == JsToString(resolvedVersion)
    IN  IF ~Truthy(repository)
        THEN verifyAfterRegistry(
                 updateProgress(c, "repo", "fail",
                     "Repository is not specified for version " \o version),
                 EmptyObject)
        ELSE IF ~Truthy(Get(repository, "url"))
        THEN verifyAfterRegistry(
                 updateProgress(c, "repo", "fail",
                     "Repository URL is not specified for version " \o version),
                 EmptyObject)
        ELSE IF ~StrictEquals(Get(repository, "type"), Str("git"))
        THEN verifyAfterRegistry(
                 updateProgress(c, "repo", "fail",
                     "Non-git (" \o JsToString(Get(repository, "type"))
                     \o ") repository specified for version " \o version),
                 EmptyObject)
        ELSE IF Get(repository, "url").t # "string"
        THEN Reject(c)
        ELSE LET repoUrl == normalizeUrl(Get(repository, "url").s)
                 c1 == updateProgress(c, "repo", "pass", NoMessage)
                 c2 == updateProgress(c1, "gitHead", "working", NoMessage)
             IN  registryGitHead(c2, versionInfo, resolvedVersion, repoUrl)

\* find repository info, check its type and URL
registryRepo(c, versionInfo, resolvedVersion) ==
    LET repository == Get(versionInfo, "repository")
        version == JsToString(resolvedVersion)
    IN  IF ~Truthy(repository)
        THEN verifyAfterRegistry(
                 updateProgress(c, "repo", "fail",
                     "Repository is not specified for version " \o version),
                 EmptyObject)
        ELSE IF ~StrictEquals(Get(repository, "type"), Str("git"))
        THEN verifyAfterRegistry(
                 updateProgress(c, "repo", "fail",
                     "Non-git (" \o JsToString(Get(repository, "type"))
                     \o ") repository specified for version " \o version),
                 EmptyObject)
        ELSE IF ~Truthy(Get(repository, "url"))
        THEN verifyAfterRegistry(
                 updateProgress(c, "repo", "fail",
                     "Repository URL is not specified for version " \o version),
                 EmptyObject)
        ELSE IF Get(repository, "url").t # "string"
        THEN Reject(c)    \* url.startsWith is not a function
        ELSE LET repoUrl == normalizeUrl(Get(repository, "url").s)
                 c1 == updateProgress(c, "repo", "pass", NoMessage)
                 c2 == updateProgress(c1, "gitHead", "working", NoMessage)
             IN  registryGitHead(c2, versionInfo, resolvedVersion, repoUrl)

\* the GET settles: resolve the version, find its info
registrySettled(c, ok, info) ==
    IF ~ok
    THEN verifyAfterRegistry(
             updateProgress(c, "registry", "fail",
                            "Error fetching package data from registry"),
             EmptyObject)
    ELSE IF Nullish(info)
    THEN Reject(c)    \* cannot read property 'dist-tags' of null
    ELSE
    LET version == Str(c.frame.version)
        distTags == Get(info, "dist-tags")
        resolvedVersion ==
            Or(And(distTags, Get(distTags, JsToString(Or(version, Str("latest"))))),
               version)
        versions == Get(info, "versions")
        versionInfo ==
            IF Truthy(versions) THEN Get(versions, JsToString(resolvedVersion))
            ELSE Undefined
    IN  IF ~Truthy(resolvedVersion)
        THEN verifyAfterRegistry(
                 updateProgress(c, "registry", "fail",
                     "Cannot resolve version " \o JsToString(version)),
                 EmptyObject)
        ELSE IF ~Truthy(versionInfo)
        THEN verifyAfterRegistry(
                 updateProgress(c, "registry", "fail",
                     "Cannot find info for version "
                     \o JsToString(resolvedVersion) \o " <<<<"),
                 EmptyObject)
        ELSE LET c1 == updateProgress(c, "registry", "pass", NoMessage)
                 c2 == updateProgress(c1, "repo", "working", NoMessage)
             IN  registryRepo(c2, versionInfo, resolvedVersion)

\* registry, up to the await of the GET
registryBegin(c) ==
    LET c1 == updateProgress(c, "registry", "working", NoMessage)
    IN  Start(c1, "get", "https://registry.npmjs.com/" \o c.frame.packageName, "get")

-----------------------------------------------------------------------------
(* Verifier.verify *)

NoFrame ==
    [packageName |-> "", version |-> "",
     resolvedVersion |-> Undefined, repoUrl |-> Undefined, gitHead |-> Undefined,
     shasum |-> Undefined, cwd |-> "", tempDir |-> "", refspec |-> Undefined,
     stdout |-> Null, remoteShasum |-> Undefined]

\* C10 mutant: the fail flag of the previous call is kept
resetKeepsFailFlag(c) ==
    [c EXCEPT !.progress = createProgress, !.hasPrinted = FALSE]

\* the three assignments verify starts with
reset(c) ==
    [c EXCEPT !.progress = createProgress, !.hasFailed = FALSE, !.hasPrinted = FALSE]

\* a call of verify, up to its first await
verifyBegin(c, packageName, version) ==
    LET c1 == reset(c)
        c2 == [c1 EXCEPT !.frame = [NoFrame EXCEPT !.packageName = packageName,
                                                   !.version = version],
                         !.result = "none", !.rendered = <<>>, !.calls = <<>>]
    IN  registryBegin(c2)

-----------------------------------------------------------------------------
(* The process, the verifiers and the outcomes of the collaborators *)

Verifiers == {"v1", "v2"}

\* the directory the process was started in
StartDir == "/work"

\* createTemp resolves with a fresh directory: a call allocates at most one, so
\* one name per verifier tells apart every two directories that are in use
TempDirOf(v) == "/tmp/tbv-" \o v

PackageNames == {"pkg"}
Versions == {"", "1.2.3", "9.9.9"}

DigestA == "da39a3ee5e6b4b0d3255bfef95601890afd80709"
DigestB == "3f786850e387550fdab836ed7e6dc881de23001b"
Commit40 == "1f0c3a9d5b7e2468ace013579bdf02468ace1357"

GitRepository(url) == Obj([type |-> Str("git"), url |-> url])

\* versions["1.2.3"] of the registry document
VersionInfos ==
    { Obj([dist |-> Obj([shasum |-> Str(DigestA)])]),
      Obj([repository |-> Obj([type |-> Str("svn"), url |-> Str("https://x/y")]),
           gitHead |-> Str(Commit40)]),
      Obj([repository |-> Obj([type |-> Str("git")])]),
      Obj([repository |-> GitRepository(Num(1))]),
      Obj([repository |-> GitRepository(Str("git+https://x/y.git")),
           gitHead |-> Str(Commit40),
           dist |-> Obj([shasum |-> Str(DigestA)])]),
      Obj([repository |-> GitRepository(Str("https://x/y.git")),
           _shasum |-> Str(DigestB),
           dist |-> Obj([shasum |-> Str(DigestA)])]),
      Obj([repository |-> GitRepository(Str("https://x/y.git")),
           gitHead |-> Str(Commit40)]),
      Obj([repository |-> Obj([type |-> Str("svn")])]),
      Obj([repository |-> Obj([url |-> Str("https://x/y.git")])]),
      Obj([repository |-> GitRepository(Str("git+git+ssh://x/y.git")),
           dist |-> Obj([shasum |-> Str(DigestB)])]),
      Obj([repository |-> GitRepository(Str("ssh://x/git+y.git")),
           _shasum |-> Str(""),
           dist |-> Obj([shasum |-> Str(DigestA)])]),
      Obj([repository |-> GitRepository(Str("git")),
           _shasum |-> Str(DigestA)]) }

\* the JSON values the GET resolves with
Infos ==
    {Null, EmptyObject}
    \cup { Obj(("dist-tags" :> Obj([latest |-> Str("1.2.3")]))
              @@ ("versions" :> Obj(("1.2.3" :> vi)))) : vi \in VersionInfos }

\* the standard output npm pack --dry-run resolves with
Stdouts ==
    { "",
      "name: pkg\nshasum:   " \o DigestA \o "\nintegrity: sha512",
      "shasum:\t" \o DigestB,
      "shasum:" \o DigestA,
      "shasum: " \o SubSeq(DigestA, 1, ShasumLen - 1) \o "X",
      "shasum: " \o DigestB \o "\nshasum: " \o DigestA }

Ctx(v) ==
    [progress |-> progress[v], hasFailed |-> hasFailed[v],
     hasPrinted |-> hasPrinted[v], pc |-> pc[v], frame |-> frame[v],
     result |-> result[v], cwd |-> cwd, rendered |-> rendered[v],
     calls |-> calls[v]]

Commit(v, c) ==
    \E d \in {c} :    \* c is computed once
        /\ progress' = [progress EXCEPT ![v] = d.progress]
        /\ hasFailed' = [hasFailed EXCEPT ![v] = d.hasFailed]
        /\ hasPrinted' = [hasPrinted EXCEPT ![v] = d.hasPrinted]
        /\ pc' = [pc EXCEPT ![v] = d.pc]
        /\ frame' = [frame EXCEPT ![v] = d.frame]
        /\ result' = [result EXCEPT ![v] = d.result]
        /\ cwd' = d.cwd
        /\ rendered' = [rendered EXCEPT ![v] = d.rendered]
        /\ calls' = [calls EXCEPT ![v] = d.calls]

Init ==
    /\ progress = [v \in Verifiers |-> createProgress]
    /\ hasFailed = [v \in Verifiers |-> FALSE]
    /\ hasPrinted = [v \in Verifiers |-> FALSE]
    /\ pc = [v \in Verifiers |-> "idle"]
    /\ frame = [v \in Verifiers |-> NoFrame]
    /\ result = [v \in Verifiers |-> "none"]
    /\ cwd = StartDir
    /\ rendered = [v \in Verifiers |-> <<>>]
    /\ calls = [v \in Verifiers |-> <<>>]
    /\ atCall = [v \in Verifiers |->
                    [cwd |-> StartDir, previous |-> "none",
                     progress |-> createProgress, hasFailed |-> FALSE,
                     hasPrinted |-> FALSE]]
    /\ overlapped = FALSE

\* verify(packageName, version) is called on a verifier that has no call in progress
VerifyCall(v) ==
    /\ pc[v] \in {"idle", "done"}
    /\ \E packageName \in PackageNames, version \in Versions :
           Commit(v, verifyBegin(Ctx(v), packageName, version))
    /\ atCall' = [atCall EXCEPT ![v] =
                     [cwd |-> cwd, previous |-> result[v],
                      progress |-> reset(Ctx(v)).progress,
                      hasFailed |-> reset(Ctx(v)).hasFailed,
                      hasPrinted |-> reset(Ctx(v)).hasPrinted]]
    /\ overlapped' = (overlapped \/ \E w \in Verifiers \ {v} :
                                        pc[w] \notin {"idle", "done"})

GetSettles(v) ==
    /\ pc[v] = "get"
    /\ \/ Commit(v, registrySettled(Settle(Ctx(v), FALSE), FALSE, Null))
       \/ \E info \in Infos :
              Commit(v, registrySettled(SettleWith(Ctx(v), info), TRUE, info))
    /\ UNCHANGED <<atCall, overlapped>>

CreateTempSettles(v) ==
    /\ pc[v] = "createTemp"
    /\ \/ Commit(v, createTempSettled(Settle(Ctx(v), FALSE), FALSE, ""))
       \/ Commit(v, createTempSettled(SettleWith(Ctx(v), Str(TempDirOf(v))),
                                      TRUE, TempDirOf(v)))
    /\ UNCHANGED <<atCall, overlapped>>

GitInitSettles(v) ==
    /\ pc[v] = "gitInit"
    /\ \E ok \in BOOLEAN : Commit(v, gitInitSettled(Settle(Ctx(v), ok), ok))
    /\ UNCHANGED <<atCall, overlapped>>

RemoteAddSettles(v) ==
    /\ pc[v] = "remoteAdd"
    /\ \E ok \in BOOLEAN : Commit(v, remoteAddSettled(Settle(Ctx(v), ok), ok))
    /\ UNCHANGED <<atCall, overlapped>>

FetchSettles(v) ==
    /\ pc[v] \in {"fetchHead", "fetchVTag", "fetchTag"}
    /\ \E ok \in BOOLEAN : Commit(v, fetchSettled(Settle(Ctx(v), ok), ok))
    /\ UNCHANGED <<atCall, overlapped>>

CheckoutHeadSettles(v) ==
    /\ pc[v] = "checkoutHead"
    /\ \E ok \in BOOLEAN : Commit(v, checkoutHeadSettled(Settle(Ctx(v), ok), ok))
    /\ UNCHANGED <<atCall, overlapped>>

PackSettles(v) ==
    /\ pc[v] = "pack"
    /\ \/ Commit(v, packSettled(Settle(Ctx(v), FALSE), FALSE, ""))
       \/ \E stdout \in Stdouts :
              Commit(v, packSettled(SettleWith(Ctx(v), Str(stdout)), TRUE, stdout))
    /\ UNCHANGED <<atCall, overlapped>>

NpmCiSettles(v) ==
    /\ pc[v] = "npmCi"
    /\ \E ok \in BOOLEAN : Commit(v, npmCiSettled(Settle(Ctx(v), ok), ok))
    /\ UNCHANGED <<atCall, overlapped>>

PackAgainSettles(v) ==
    /\ pc[v] = "packAgain"
    /\ \/ Commit(v, packAgainSettled(Settle(Ctx(v), FALSE), FALSE, ""))
       \/ \E stdout \in Stdouts :
              Commit(v, packAgainSettled(SettleWith(Ctx(v), Str(stdout)),
                                         TRUE, stdout))
    /\ UNCHANGED <<atCall, overlapped>>

\* one verifier in use, one call at a time
Single == {"v1"}

Next ==
    \E v \in Single :
        \/ VerifyCall(v)
        \/ GetSettles(v)
        \/ CreateTempSettles(v)
        \/ GitInitSettles(v)
        \/ RemoteAddSettles(v)
        \/ FetchSettles(v)
        \/ CheckoutHeadSettles(v)
        \/ PackSettles(v)
        \/ NpmCiSettles(v)
        \/ PackAgainSettles(v)

Spec == Init /\ [][Next]_vars

\* every call to a collaborator settles in the end: the promise an await
\* waits on is resolved or rejected
SpecFair ==
    /\ Spec
    /\ \A v \in Single :
           /\ WF_vars(GetSettles(v))
           /\ WF_vars(CreateTempSettles(v))
           /\ WF_vars(GitInitSettles(v))
           /\ WF_vars(RemoteAddSettles(v))
           /\ WF_vars(FetchSettles(v))
           /\ WF_vars(CheckoutHeadSettles(v))
           /\ WF_vars(PackSettles(v))
           /\ WF_vars(NpmCiSettles(v))
           /\ WF_vars(PackAgainSettles(v))

-----------------------------------------------------------------------------
(* Vocabulary of the properties *)

Status(v, id) == progress[v][id].status
AnyFail(v) == \E id \in Steps : Status(v, id) = "fail"
Terminal == {"pass", "fail", "warn", "skipped"}

FetchPrefix == "git fetch --depth 1 origin "
IsFetch(call) == call.op = "exec" /\ StartsWith(call.arg, FetchPrefix)
FetchRef(call) == Substring(call.arg, Len(FetchPrefix))
IsExec(call, cmd) == call.op = "exec" /\ call.arg = cmd

\* the render hook was shown step id going to status
Rendered(v, id, status) ==
    \E i \in DOMAIN rendered[v] :
        rendered[v][i].id = id /\ rendered[v][i].status = status

\* the render hook was shown some step going to Fail
FailRendered(v) ==
    \E i \in DOMAIN rendered[v] : rendered[v][i].status = "fail"

\* the version's metadata had a gitHead: the step passed without a warning
GitHeadInMetadata(v) ==
    \E i \in DOMAIN rendered[v] :
        rendered[v][i] = [id |-> "gitHead", from |-> "working", status |-> "pass"]
GitHeadAbsent(v) == Rendered(v, "gitHead", "warn")

\* a call of verify has begun on v since the state before this step
NewCall(v) == pc[v] \in {"idle", "done"} /\ pc'[v] = "get"

-----------------------------------------------------------------------------
(* C1: verify never raises: whatever the collaborators answer, its promise  *)
(* resolves to a boolean and is never rejected.                             *)
C1_NeverRaises ==
    \A v \in Verifiers : result[v] # "rejected"

(* C2: when verify hands control back, the process working directory is the *)
(* one it was called in, on every exit path.                                 *)
C2_CwdRestored ==
    \A v \in Verifiers : pc[v] = "done" => cwd = atCall[v].cwd

\* pack failed to parse the digest while the directory was the temp directory
C2_Witness ==
    \E v \in Verifiers :
        /\ pc[v] = "done" /\ result[v] = "false"
        /\ progress[v]["pack"].message = "Error parsing shasum from pack output"
        /\ \E i \in DOMAIN calls[v] :
               IsExec(calls[v][i], "npm pack --dry-run")
               /\ calls[v][i].cwd = TempDirOf(v) /\ calls[v][i].cwd # atCall[v].cwd

(* C3: while some step is Fail, every step ordered after it is Pending.      *)
C3_LaterStepsPending ==
    \A v \in Verifiers : \A i, j \in 1..Len(StepIds) :
        (i < j /\ Status(v, StepIds[i]) = "fail")
            => Status(v, StepIds[j]) = "pending"

\* install failed in the dependency fallback, after pack had been Working
C3_Witness ==
    \E v \in Verifiers :
        /\ Status(v, "install") = "fail"
        /\ Rendered(v, "pack", "working")
        /\ Status(v, "pack") = "pending"

(* C4: once a step is Fail the fail flag is set, verify has returned false,  *)
(* no collaborator call is in flight, and none is started and the flag      *)
(* stays set until the next call of verify.                                 *)
C4_FailHalts ==
    /\ [](\A v \in Verifiers :
             AnyFail(v) =>
                 /\ hasFailed[v]
                 /\ pc[v] = "done" /\ result[v] = "false"
                 /\ \A i \in DOMAIN calls[v] : calls[v][i].outcome # "pending")
    /\ [][\A v \in Verifiers :
             (AnyFail(v) /\ ~NewCall(v)) =>
                 (calls'[v] = calls[v] /\ hasFailed'[v])]_vars

\* checkout failed after two collaborator calls and the run was over
C4_Witness ==
    \E v \in Verifiers :
        /\ Status(v, "checkout") = "fail"
        /\ Len(calls[v]) >= 2
        /\ result[v] = "false"

(* C5: when the version's metadata has a gitHead, the only fetch of the run  *)
(* is git fetch --depth 1 origin {gitHead}; no tag is ever fetched.          *)
C5_FetchesCommitOnly ==
    \A v \in Verifiers :
        GitHeadInMetadata(v) =>
            \A i \in DOMAIN calls[v] :
                IsFetch(calls[v][i]) => FetchRef(calls[v][i]) = Commit40

(* C6: every update moves its step forward along Pending -> Working -> one   *)
(* of Pass, Fail, Warn, Skipped.                                             *)
Forward(u) ==
    \/ u.from = "pending" /\ u.status = "working"
    \/ u.from = "working" /\ u.status \in Terminal

C6_Monotonic ==
    \A v \in Verifiers : \A i \in DOMAIN rendered[v] : Forward(rendered[v][i])

(* C6, amended: every update moves its step forward along that order, but    *)
(* for three updates: pack goes from Working back to Pending while the       *)
(* dependencies are installed, gitHead goes from Warn to Pass, and install   *)
(* goes from Pending straight to Skipped.  No step leaves Pass, Fail or      *)
(* Skipped.                                                                  *)
C6_MonotonicButThree ==
    \A v \in Verifiers : \A i \in DOMAIN rendered[v] :
        LET u == rendered[v][i]
        IN  \/ Forward(u)
            \/ u.id = "pack" /\ u.from = "working" /\ u.status = "pending"
            \/ u.id = "gitHead" /\ u.from = "warn" /\ u.status = "pass"
            \/ u.id = "install" /\ u.from = "pending" /\ u.status = "skipped"

\* a finished run that went through the dependency fallback with no gitHead
C6_Witness ==
    \E v \in Verifiers :
        /\ pc[v] = "done"
        /\ Rendered(v, "pack", "pending")
        /\ Rendered(v, "gitHead", "warn")
        /\ Status(v, "pack") = "fail" /\ Status(v, "install") = "pass"

(* C7: verify returns true exactly when compare is Pass at return, which     *)
(* needs registry, repo, gitHead, checkout and pack Pass, install Pass or    *)
(* Skipped and the registry digest equal to the digest parsed from the pack  *)
(* output; it returns false exactly when some step is Fail at return.        *)
C7_ResultIffCompare ==
    \A v \in Verifiers :
        pc[v] = "done" =>
            /\ result[v] = "true" <=> Status(v, "compare") = "pass"
            /\ result[v] = "false" <=> AnyFail(v)
            /\ result[v] = "true" =>
                   /\ \A id \in {"registry", "repo", "gitHead", "checkout", "pack"} :
                          Status(v, id) = "pass"
                   /\ Status(v, "install") \in {"pass", "skipped"}
                   /\ frame[v].stdout.t = "string"
                   /\ ~ExecIsNull(frame[v].stdout.s)
                   /\ frame[v].shasum = Str(ExecGroup1(frame[v].stdout.s))

\* a run returned true through the dependency fallback, on the legacy digest
C7_Witness ==
    \E v \in Verifiers :
        /\ result[v] = "true"
        /\ frame[v].shasum = Str(DigestB)
        /\ Status(v, "install") = "pass"

(* C8: with no gitHead, checkout fetches tags/v{version} first, fetches      *)
(* tags/{version} only after that fetch failed, takes as refspec the ref of  *)
(* the fetch that succeeded, runs git checkout FETCH_HEAD only after a fetch *)
(* succeeded, and is Fail without a checkout when both fetches fail.         *)
C8_TagFallback ==
    \A v \in Verifiers :
        GitHeadAbsent(v) =>
            LET cs == calls[v]
                version == JsToString(frame[v].resolvedVersion)
            IN  \A i \in DOMAIN cs :
                    /\ (IsFetch(cs[i]) /\ (i = 1 \/ ~IsFetch(cs[i - 1]))) =>
                           FetchRef(cs[i]) = "tags/v" \o version
                    /\ (IsFetch(cs[i]) /\ i > 1 /\ IsFetch(cs[i - 1])) =>
                           /\ FetchRef(cs[i]) = "tags/" \o version
                           /\ FetchRef(cs[i - 1]) = "tags/v" \o version
                           /\ cs[i - 1].outcome = "rejected"
                    /\ IsExec(cs[i], "git checkout FETCH_HEAD") =>
                           /\ i > 1
                           /\ IsFetch(cs[i - 1])
                           /\ cs[i - 1].outcome = "resolved"
                           /\ frame[v].refspec = Str(FetchRef(cs[i - 1]))
                    /\ (IsFetch(cs[i]) /\ FetchRef(cs[i]) = "tags/" \o version
                          /\ cs[i].outcome = "rejected") =>
                           /\ Status(v, "checkout") = "fail"
                           /\ i = Len(cs)

\* the fetch by v-prefixed tag failed, the fetch by plain tag succeeded
C8_Witness ==
    \E v \in Verifiers :
        /\ GitHeadAbsent(v)
        /\ pc[v] = "checkoutHead"
        /\ frame[v].refspec = Str("tags/1.2.3")
        /\ calls[v][Len(calls[v]) - 2].outcome = "rejected"

(* C9: a missing gitHead sets gitHead to Warn and then to Pass, leaves the   *)
(* fail flag alone and does not halt: checkout is entered.  The fail flag is *)
(* set by the updates to Fail and by no other.                               *)
C9_WarnDoesNotHalt ==
    \A v \in Verifiers :
        /\ \A i \in DOMAIN rendered[v] :
               (rendered[v][i].id = "gitHead" /\ rendered[v][i].status = "warn") =>
                   /\ i < Len(rendered[v])
                   /\ rendered[v][i + 1] =
                          [id |-> "gitHead", from |-> "warn", status |-> "pass"]
                   /\ i + 1 < Len(rendered[v])
                   /\ rendered[v][i + 2] =
                          [id |-> "checkout", from |-> "pending", status |-> "working"]
        /\ GitHeadAbsent(v) =>
               /\ Status(v, "gitHead") = "pass"
               /\ \E i \in DOMAIN calls[v] : calls[v][i].op = "createTemp"
        /\ hasFailed[v] <=> FailRendered(v)

\* a run with no gitHead in the metadata returned true
C9_Witness ==
    \E v \in Verifiers : GitHeadAbsent(v) /\ result[v] = "true"

(* C10: every call of verify starts from a fresh state whatever the previous *)
(* call left: right after its reset all seven steps are Pending with no      *)
(* message and both flags are false, and from then on the progress and the   *)
(* flags are those the updates of this call alone produce.                   *)
RECURSIVE Replay(_, _)
Replay(p, us) ==
    IF us = <<>> THEN p
    ELSE Replay([p EXCEPT ![Head(us).id].status = Head(us).status], Tail(us))

C10_FreshStart ==
    \A v \in Verifiers :
        /\ \A id \in Steps :
               /\ atCall[v].progress[id].status = "pending"
               /\ atCall[v].progress[id].message = NoMessage
        /\ ~atCall[v].hasFailed /\ ~atCall[v].hasPrinted
        /\ \A id \in Steps :
               Status(v, id) = Replay([s \in Steps |-> [status |-> "pending"]],
                                      rendered[v])[id].status
        /\ hasFailed[v] <=> FailRendered(v)
        /\ hasPrinted[v] <=> rendered[v] # <<>>

\* a call made after a call that returned false has itself returned true
C10_Witness ==
    \E v \in Verifiers : atCall[v].previous = "false" /\ result[v] = "true"

-----------------------------------------------------------------------------
(* C11: in pack, a first npm pack --dry-run that succeeds makes install      *)
(* Skipped and npm ci is never run; one that fails is followed by npm ci,    *)
(* run once; the pack is retried once, only after npm ci succeeded; a failed *)
(* npm ci makes install Fail and leaves pack Pending with no retry; a failed *)
(* retry makes pack Fail.  npm pack --dry-run is never run more than twice.  *)
PackCmd == "npm pack --dry-run"
CallsOf(v, cmd) == {i \in DOMAIN calls[v] : IsExec(calls[v][i], cmd)}

C11_PackFallback ==
    \A v \in Verifiers :
        LET cs == calls[v]
            packs == CallsOf(v, PackCmd)
            cis == CallsOf(v, "npm ci")
        IN  /\ Cardinality(packs) <= 2
            /\ Cardinality(cis) <= 1
            /\ \A i \in packs :
                   LET first == \A j \in packs : i <= j
                   IN  /\ (first /\ cs[i].outcome = "resolved") =>
                              /\ Rendered(v, "install", "skipped")
                              /\ cis = {} /\ packs = {i}
                       /\ (first /\ cs[i].outcome = "rejected") =>
                              /\ cis = {i + 1}
                              /\ ~Rendered(v, "install", "skipped")
                       /\ ~first =>
                              /\ cis = {i - 1}
                              /\ cs[i - 1].outcome = "resolved"
                              /\ Rendered(v, "install", "pass")
                              /\ cs[i - 2].outcome = "rejected"
                       /\ (~first /\ cs[i].outcome = "rejected") =>
                              Status(v, "pack") = "fail"
            /\ \A i \in cis :
                   cs[i].outcome = "rejected" =>
                       /\ Status(v, "install") = "fail"
                       /\ Status(v, "pack") = "pending"
                       /\ Cardinality(packs) = 1
                       /\ i = Len(cs)

\* the retried pack failed after a successful install
C11_Witness ==
    \E v \in Verifiers :
        /\ Cardinality(CallsOf(v, PackCmd)) = 2
        /\ Status(v, "install") = "pass"
        /\ Status(v, "pack") = "fail"
        /\ calls[v][Len(calls[v])].outcome = "rejected"

-----------------------------------------------------------------------------
(* Two runs in one process.  Each of two verifiers is called once, and the   *)
(* two calls may be in progress at the same time: any of them resumes when   *)
(* its collaborator call settles.  The registry always answers, with one     *)
(* document, and an npm pack that succeeds prints one output; every other    *)
(* collaborator call succeeds or fails.                                      *)

ConcDocument ==
    Obj(("dist-tags" :> Obj([latest |-> Str("1.2.3")]))
        @@ ("versions" :> Obj(("1.2.3" :>
               Obj([repository |-> GitRepository(Str("git+https://x/y.git")),
                    gitHead |-> Str(Commit40),
                    dist |-> Obj([shasum |-> Str(DigestA)])])))))
ConcStdout == Str("shasum: " \o DigestA)

ConcInputs ==
    \A v \in Verifiers :
        /\ atCall[v].previous = "none"
        /\ pc[v] # "idle" => frame[v].version = "1.2.3"
        /\ \A i \in DOMAIN calls[v] :
               /\ calls[v][i].op = "get" =>
                      calls[v][i].value \in {Undefined, ConcDocument}
                      /\ calls[v][i].outcome # "rejected"
               /\ (IsExec(calls[v][i], PackCmd) /\ calls[v][i].outcome = "resolved")
                      => calls[v][i].value = ConcStdout

NextConc ==
    \E v \in Verifiers :
        \/ VerifyCall(v) /\ ConcInputs'
        \/ GetSettles(v) /\ ConcInputs'
        \/ CreateTempSettles(v)
        \/ GitInitSettles(v)
        \/ RemoteAddSettles(v)
        \/ FetchSettles(v)
        \/ CheckoutHeadSettles(v)
        \/ PackSettles(v) /\ ConcInputs'
        \/ NpmCiSettles(v)
        \/ PackAgainSettles(v) /\ ConcInputs'

SpecConc == Init /\ [][NextConc]_vars

\* the directory a command of v was started in is the temp directory of v
RanInOwnTemp(v) ==
    \A i \in DOMAIN calls[v] :
        calls[v][i].op = "exec" => calls[v][i].cwd = TempDirOf(v)
Quiescent == \A v \in Verifiers : pc[v] \in {"idle", "done"}

-----------------------------------------------------------------------------
(* What the registry answered, read from the history of the calls *)

\* the JSON value the GET of this call resolved with
Response(v) == calls[v][1].value

\* the entry of the resolved version in it: versions[dist-tags[version or
\* "latest"], or else version]
ResolvedEntry(v) ==
    LET tag == IF frame[v].version = "" THEN "latest" ELSE frame[v].version
        byTag == Get(Get(Response(v), "dist-tags"), tag)
        resolved == IF Truthy(byTag) THEN JsToString(byTag) ELSE frame[v].version
    IN  Get(Get(Response(v), "versions"), resolved)

\* the GET resolved and the resolved version has an entry
HasEntry(v) ==
    /\ calls[v] # <<>>
    /\ calls[v][1].outcome = "resolved"
    /\ Truthy(ResolvedEntry(v))

RemoteAddPrefix == "git remote add origin \""
IsRemoteAdd(call) == call.op = "exec" /\ StartsWith(call.arg, RemoteAddPrefix)
\* the URL between the quotes of the command
RemoteAddUrl(call) == SubSeq(call.arg, Len(RemoteAddPrefix) + 1, Len(call.arg) - 1)

(* C13: the URL handed to git remote add is the repository url of the        *)
(* version less one leading "git+" when it has one, and that url itself when *)
(* it has none; "git+https://x/y.git" gives "https://x/y.git"; normalising   *)
(* a URL with no leading "git+" again leaves it as it is.                    *)
C13_UrlNormalized ==
    \A v \in Verifiers : \A i \in DOMAIN calls[v] :
        IsRemoteAdd(calls[v][i]) =>
            LET url == Get(Get(ResolvedEntry(v), "repository"), "url").s
                passed == RemoteAddUrl(calls[v][i])
            IN  /\ StartsWith(url, "git+") => "git+" \o passed = url
                /\ ~StartsWith(url, "git+") => passed = url
                /\ url = "git+https://x/y.git" => passed = "https://x/y.git"
                /\ ~StartsWith(passed, "git+") => normalizeUrl(passed) = passed
                /\ calls[v][i].arg = RemoteAddPrefix \o passed \o "\""

\* a url with two prefixes has lost the first one only
C13_Witness ==
    \E v \in Verifiers : \E i \in DOMAIN calls[v] :
        /\ IsRemoteAdd(calls[v][i])
        /\ Get(Get(ResolvedEntry(v), "repository"), "url")
               = Str("git+git+ssh://x/y.git")
        /\ RemoteAddUrl(calls[v][i]) = "git+ssh://x/y.git"

(* C14: when the resolved entry has no repository, a repository type other   *)
(* than "git", or no repository url, the run has ended with registry Pass,   *)
(* repo Fail, the five later steps Pending and the result false, having made *)
(* no call but the GET; the message is that of the first of the three checks *)
(* that fails, in the order repository, type, url.                           *)
C14_RepoRejected ==
    \A v \in Verifiers :
        LET repository == Get(ResolvedEntry(v), "repository")
            type == Get(repository, "type")
            url == Get(repository, "url")
        IN  (/\ HasEntry(v)
             /\ \/ ~Truthy(repository)
                \/ ~StrictEquals(type, Str("git"))
                \/ ~Truthy(url))
            => /\ pc[v] = "done"
               /\ result[v] = "false"
               /\ Status(v, "registry") = "pass"
               /\ Status(v, "repo") = "fail"
               /\ \A id \in {"gitHead", "checkout", "install", "pack", "compare"} :
                      Status(v, id) = "pending"
               /\ Len(calls[v]) = 1
               /\ calls[v][1].op = "get"
               /\ progress[v]["repo"].message =
                      IF ~Truthy(repository)
                      THEN "Repository is not specified for version 1.2.3"
                      ELSE IF ~StrictEquals(type, Str("git"))
                      THEN "Non-git (" \o JsToString(type)
                               \o ") repository specified for version 1.2.3"
                      ELSE "Repository URL is not specified for version 1.2.3"

\* a repository of type svn with no url is reported as non-git
C14_Witness ==
    \E v \in Verifiers :
        /\ HasEntry(v)
        /\ Get(ResolvedEntry(v), "repository") = Obj([type |-> Str("svn")])
        /\ pc[v] = "done"
        /\ result[v] = "false"
        /\ progress[v]["repo"].message =
               "Non-git (svn) repository specified for version 1.2.3"

\* the run went as far as compare
ReachedCompare(v) == Status(v, "compare") \in {"pass", "fail"}
LegacyShasum(v) == Get(ResolvedEntry(v), "_shasum")
DistShasum(v) == Get(Get(ResolvedEntry(v), "dist"), "shasum")

\* compare is handed a pack digest of 40 hexadecimal characters, and with no
\* registry digest it is Fail and the result is false
PackDigestWellFormed(v) ==
    /\ frame[v].remoteShasum.t = "string"
    /\ Len(frame[v].remoteShasum.s) = ShasumLen
    /\ \A i \in 1..ShasumLen : CharAt(frame[v].remoteShasum.s, i) \in HexDigits
    /\ frame[v].shasum = Undefined =>
           (Status(v, "compare") = "fail"
            /\ (pc[v] = "done" => result[v] = "false"))

(* C15 as stated: the registry digest handed to compare is _shasum whenever  *)
(* the entry has that field, and dist.shasum only when it has not; with      *)
(* neither it is undefined, compare is Fail and the result is false.         *)
C15_LegacyWhenPresent ==
    \A v \in Verifiers :
        ReachedCompare(v) =>
            /\ frame[v].shasum =
                   IF LegacyShasum(v) # Undefined THEN LegacyShasum(v)
                   ELSE DistShasum(v)
            /\ PackDigestWellFormed(v)

(* C15 amended: the registry digest handed to compare is _shasum whenever    *)
(* that field is truthy (present and not the empty string), and dist.shasum  *)
(* otherwise; with neither it is undefined, compare is Fail and the result   *)
(* is false, the pack digest being 40 hexadecimal characters.                *)
C15_LegacyWhenTruthy ==
    \A v \in Verifiers :
        ReachedCompare(v) =>
            /\ frame[v].shasum =
                   IF Truthy(LegacyShasum(v)) THEN LegacyShasum(v)
                   ELSE DistShasum(v)
            /\ (LegacyShasum(v) = Undefined /\ DistShasum(v) = Undefined)
                   => frame[v].shasum = Undefined
            /\ PackDigestWellFormed(v)

\* an empty _shasum gave way to dist.shasum, and the run returned true on it
C15_Witness ==
    \E v \in Verifiers :
        /\ ReachedCompare(v)
        /\ LegacyShasum(v) = Str("")
        /\ frame[v].shasum = Str(DigestA)
        /\ result[v] = "true"

\* the calls of the run made with operation op
CallsWith(v, op) == {i \in DOMAIN calls[v] : calls[v][i].op = op}

\* at most one GET, one temp directory and eight subprocesses
WithinBudget(v) ==
    /\ Cardinality(CallsWith(v, "get")) <= 1
    /\ Cardinality(CallsWith(v, "createTemp")) <= 1
    /\ Cardinality(CallsWith(v, "exec")) <= 8

\* two calls are the same only when they are npm pack --dry-run on either
\* side of an npm ci that succeeded
NoReissue(v) ==
    \A i \in DOMAIN calls[v] : \A j \in DOMAIN calls[v] :
        (i < j /\ calls[v][i].op = calls[v][j].op /\ calls[v][i].arg = calls[v][j].arg)
            => /\ IsExec(calls[v][i], PackCmd)
               /\ j = i + 2
               /\ IsExec(calls[v][i + 1], "npm ci")
               /\ calls[v][i + 1].outcome = "resolved"

(* C16: when every collaborator call settles, every run of verify settles;   *)
(* it makes at most one GET, one temp directory and eight subprocesses, and  *)
(* issues no command twice but npm pack --dry-run, a second time after an    *)
(* npm ci that succeeded.                                                    *)
C16_Terminates ==
    /\ [](\A v \in Verifiers : WithinBudget(v) /\ NoReissue(v))
    /\ \A v \in Verifiers : (pc[v] \notin {"idle", "done"}) ~> (pc[v] = "done")

\* a run that ended after all eight subprocesses
C16_Witness ==
    \E v \in Verifiers :
        /\ pc[v] = "done"
        /\ Cardinality(CallsWith(v, "get")) = 1
        /\ Cardinality(CallsWith(v, "createTemp")) = 1
        /\ Cardinality(CallsWith(v, "exec")) = 8
        /\ Cardinality(CallsOf(v, PackCmd)) = 2

\* the statuses after the first k updates of the run
StatusesAt(v, k) ==
    Replay([s \in Steps |-> [status |-> "pending"]], SubSeq(rendered[v], 1, k))

\* a step has left Pending only when the steps before it allow it
Precedence(p) ==
    /\ p["repo"].status # "pending" => p["registry"].status = "pass"
    /\ p["gitHead"].status # "pending" => p["repo"].status = "pass"
    /\ p["checkout"].status # "pending" =>
           \A id \in {"registry", "repo", "gitHead"} : p[id].status = "pass"
    /\ (p["install"].status # "pending" \/ p["pack"].status # "pending")
           => p["checkout"].status = "pass"
    /\ p["compare"].status # "pending" =>
           /\ p["pack"].status = "pass"
           /\ p["install"].status \in {"pass", "skipped"}

(* C17: phase precedence holds after every update of a run: repo has left    *)
(* Pending only if registry is Pass, gitHead only if repo is Pass, checkout  *)
(* only if registry, repo and gitHead are Pass, install or pack only if      *)
(* checkout is Pass, compare only if pack is Pass and install is Pass or     *)
(* Skipped.                                                                  *)
C17_PhasePrecedence ==
    \A v \in Verifiers :
        /\ Precedence(progress[v])
        /\ \A k \in 0..Len(rendered[v]) : Precedence(StatusesAt(v, k))

\* install has failed in the fallback while pack is back to Pending
C17_Witness ==
    \E v \in Verifiers :
        /\ Status(v, "install") = "fail"
        /\ Status(v, "pack") = "pending"
        /\ Status(v, "checkout") = "pass"
        /\ Status(v, "compare") = "pending"

\* the steps that are Fail
Failed(v) == {id \in Steps : Status(v, id) = "fail"}

(* C18: when verify has returned a boolean no step is Working or Warn: each  *)
(* is Pending, Pass, Fail or Skipped, and at most one is Fail.               *)
C18_SettledStatuses ==
    \A v \in Verifiers :
        (pc[v] = "done" /\ result[v] \in {"true", "false"}) =>
            /\ \A id \in Steps :
                   Status(v, id) \in {"pending", "pass", "fail", "skipped"}
            /\ Cardinality(Failed(v)) <= 1

\* a run that warned about gitHead and installed the dependencies has
\* returned false with pack as its one failed step
C18_Witness ==
    \E v \in Verifiers :
        /\ pc[v] = "done"
        /\ result[v] = "false"
        /\ GitHeadAbsent(v)
        /\ Status(v, "install") = "pass"
        /\ Failed(v) = {"pack"}

\* the steps that are Working in the statuses p
WorkingIn(p) == {id \in Steps : p[id].status = "working"}

(* C19: after every update of a run at most one of the seven steps is        *)
(* Working; while install is Working in the dependency fallback, pack is     *)
(* Pending.                                                                  *)
C19_OneWorking ==
    \A v \in Verifiers :
        /\ Cardinality(WorkingIn(progress[v])) <= 1
        /\ \A k \in 0..Len(rendered[v]) :
               LET p == StatusesAt(v, k)
               IN  /\ Cardinality(WorkingIn(p)) <= 1
                   /\ p["install"].status = "working" => p["pack"].status = "pending"

\* npm ci is awaited: install is the one Working step, pack was Working before
C19_Witness ==
    \E v \in Verifiers :
        /\ pc[v] = "npmCi"
        /\ WorkingIn(progress[v]) = {"install"}
        /\ Status(v, "pack") = "pending"
        /\ Rendered(v, "pack", "working")

\* the commands checkout and pack run
Subprocesses ==
    {"git init", "git checkout FETCH_HEAD", PackCmd, "npm ci"}

(* C20: every git and npm subprocess of a run is started with the run's temp *)
(* directory as working directory, and the working directory is the one of   *)
(* the caller outside the checkout and pack phases: in the registry phase,   *)
(* between checkout and pack (the directory pack saves), and from compare    *)
(* to the end.                                                               *)
C20_SubprocessesInTemp ==
    \A v \in Single :
        /\ \A i \in DOMAIN calls[v] :
               LET call == calls[v][i]
               IN  /\ call.op = "exec" =>
                          /\ call.cwd = TempDirOf(v)
                          /\ \/ call.arg \in Subprocesses
                             \/ IsRemoteAdd(call)
                             \/ IsFetch(call)
                   /\ call.op \in {"get", "createTemp"} => call.cwd = atCall[v].cwd
        /\ pc[v] \in {"get", "createTemp", "done"} => cwd = atCall[v].cwd
        /\ pc[v] \in {"pack", "npmCi", "packAgain"} => frame[v].cwd = atCall[v].cwd
        /\ pc[v] \notin {"idle", "get", "createTemp", "done"} => cwd = TempDirOf(v)

\* all six kinds of subprocess were run, and the run is over
C20_Witness ==
    \E v \in Single :
        /\ pc[v] = "done"
        /\ cwd = StartDir
        /\ \A cmd \in Subprocesses : CallsOf(v, cmd) # {}
        /\ \E i \in DOMAIN calls[v] : IsRemoteAdd(calls[v][i])
        /\ \E i \in DOMAIN calls[v] : IsFetch(calls[v][i])
        /\ \A i \in DOMAIN calls[v] :
               calls[v][i].op = "exec" => calls[v][i].cwd = TempDirOf(v)

====
